---- MODULE Spec2Model ----
(***************************************************************************)
(* Model of backend/main.py: the face store (one pickle file per user in   *)
(* DB_DIR), the attendance log (LOG_FILE) and the handlers /enroll,        *)
(* /search, /get_attendance_logs, /admin/clear_all and /health.            *)
(*                                                                         *)
(* Granularity: one step per file-system call of the source (exists/read,  *)
(* open, write-and-close, rmtree, makedirs, listdir).  Everything a        *)
(* handler computes on its own locals between two such calls belongs to    *)
(* the step of the call that follows.  Handlers declared "def" run in the  *)
(* thread pool and interleave freely; /search is "async def" and never     *)
(* awaits after reading the body, so two /search bodies never overlap.     *)
(*                                                                         *)
(* Reductions: an embedding is a single coordinate in thousandths (the     *)
(* other 127 coordinates are taken equal), so the L2 distance of two       *)
(* embeddings is the absolute difference, 1000 is the distance 1.0 and     *)
(* "%.3f" is exact.  A name or a log field is a sequence of one-character  *)
(* (or longer, atomic) tokens, so that strip, line formatting and comma    *)
(* splitting are computed and not assumed.  SNAP_DIR is left out: no       *)
(* handler but clear_all touches it.                                       *)
(***************************************************************************)
EXTENDS Integers, Sequences, FiniteSets, TLC

\* ----------------------------------------------------------------- bounds
NumWorkers == 2          \* requests that can be in flight at once
MaxReqs == 2             \* requests issued in one run
MaxTime == 1             \* distinct readings of the wall clock

Workers == 1..NumWorkers
Timestamps == 1..MaxTime

\* ------------------------------------------------------ program constants
EmbLen == 128            \* required length of a JSON embedding
DefaultTol == 600        \* threshold: float = 0.6 / tolerance=0.6
InitBestDist == 1000     \* best_dist starts at 1.0
NullDist == 0 - 1        \* "distance": None in a response
AbsentDist == 0 - 2      \* a response without a "distance" key

\* ------------------------------------------------------------ input sets
\* userName form values: "a", " b" (leading blank) and " " (blank only).
RawNames == { <<"a">>, <<" ", "b">>, <<" ">> }
\* Coordinates of the encodings the extractor finds in uploads, and of the
\* embeddings a JSON client supplies: distances 0, 600 and 1200 occur.
Embs == {0, 1200}
JsonEmbs == {0, 600}
\* Thresholds a JSON client can supply.
Tols == {DefaultTol, 1100}
\* Lengths of the embedding list a JSON client can supply.
Lens == {EmbLen, EmbLen - 1}
BadJson == 0 - 1

Image(kind, faces, enc) == [kind |-> kind, faces |-> faces, enc |-> enc]
NoImage == Image("none", 0, 0)
\* An upload: empty, undecodable, or a picture with 0, 1 or 2 faces whose
\* (single, or largest) face encodes to enc.
Images == { Image("empty", 0, 0), Image("invalid", 0, 0), Image("ok", 0, 0),
            Image("ok", 2, 0) }
          \cup { Image("ok", 1, e) : e \in Embs }

\* ------------------------------------------------------------ pure helpers
Abs(x) == IF x < 0 THEN 0 - x ELSE x

SeqMin(s) == CHOOSE m \in { s[i] : i \in 1..Len(s) } :
                \A i \in 1..Len(s) : m <= s[i]

RECURSIVE LStrip(_)
LStrip(s) == IF s # <<>> /\ Head(s) = " " THEN LStrip(Tail(s)) ELSE s

RECURSIVE RStrip(_)
RStrip(s) == IF s # <<>> /\ s[Len(s)] = " "
             THEN RStrip(SubSeq(s, 1, Len(s) - 1)) ELSE s

\* The name as the form gives it, not stripped.
Unstripped(s) == s

\* str.strip()
Strip(s) == RStrip(LStrip(s))

\* The identities a request can name.
Idents == { Strip(r) : r \in RawNames } \ { <<>> }

UnknownPerson == <<"unknown_person">>
NoPatient == <<"None">>

\* All orders in which os.listdir can return the set S of names.
Perms(S) == { s \in [1..Cardinality(S) -> S] :
                \A i, j \in 1..Cardinality(S) : i # j => s[i] # s[j] }

\* ---------------------------------------------------------------- records
Resp(status, ok, patient, distance, samples, detail, body) ==
    [status |-> status, ok |-> ok, patient |-> patient, distance |-> distance,
     samples |-> samples, detail |-> detail, body |-> body]
NoResp == Resp(0, FALSE, NoPatient, AbsentDist, 0, "", <<>>)
\* HTTPException(status_code, detail), and an uncaught exception (500).
HttpError(status, detail) ==
    Resp(status, FALSE, NoPatient, AbsentDist, 0, detail, <<>>)
ServerError == HttpError(500, "Internal Server Error")

\* A request: userName and img are the form fields of /enroll; ct is the
\* Content-Type of /search, img its file part, and (len, x, tol) the
\* embedding's length, its coordinate and the threshold of a JSON body
\* (len < 0: a body SearchIn rejects).
Req(op, userName, img, ct, len, x, tol) ==
    [op |-> op, userName |-> userName, img |-> img, ct |-> ct, len |-> len,
     x |-> x, tol |-> tol]
NoReq == Req("none", <<>>, NoImage, "", 0, 0, 0)

Entry(event, user, match, extra) ==
    [event |-> event, user |-> user, match |-> match, extra |-> extra]
NoEntry == Entry("", <<>>, FALSE, <<>>)

NoLoc == [name |-> <<>>, enc |-> 0, existing |-> <<>>, users |-> <<>>,
          i |-> 0, best_name |-> UnknownPerson, best_dist |-> InitBestDist,
          tol |-> 0, mode |-> "", entry |-> NoEntry, ret |-> NoResp]

\* A file of DB_DIR: missing, opened "wb" and not yet written (empty, so
\* pickle.load raises EOFError), or holding a pickled list of encodings.
Absent == [st |-> "absent", encs |-> <<>>]
Torn == [st |-> "torn", encs |-> <<>>]
Pickled(encs) == [st |-> "ok", encs |-> encs]

\* ------------------------------------------------------------- the state
VARIABLES
    dbDir,        \* DB_DIR exists
    db,           \* Idents -> the file <name>.pickle
    logsDir,      \* LOGS_DIR exists
    logFile,      \* LOG_FILE: [exists, data (the tokens of the file)]
    pc,           \* Workers -> where the worker's handler stands
    req,          \* Workers -> the request being (or last) handled
    resp,         \* Workers -> the response last returned
    loc,          \* Workers -> the handler's local variables
    stale,        \* Workers -> the file the worker holds open was unlinked
    started,      \* requests issued so far
    nlogged,      \* history: Workers -> lines the current call put in the log
    wipeStarted,  \* history: some clear_all has begun
    lastLen,      \* history: Idents -> length of the list last readable
    appended,     \* history: the entries written to LOG_FILE since it was
                  \*          last truncated, in order
    lastEnroll    \* history: the latest /enroll answered with success

vars == <<dbDir, db, logsDir, logFile, pc, req, resp, loc, stale, started,
          nlogged, wipeStarted, lastLen, appended, lastEnroll>>

store == <<dbDir, db, lastLen>>
logst == <<logsDir, logFile, appended>>

\* ------------------------------------------------------------ the log file
Header == <<"timestamp", ",", "event", ",", "user", ",", "match", ",",
            "extra", "\n">>

\* now_str(): the clock reading t as text.
NowStr(t) == "T" \o ToString(t)

\* int(match)
IntOfBool(b) == IF b THEN "1" ELSE "0"

\* f"{dist:.3f}" of a distance in thousandths
Fmt3f(d) == ToString(d)

\* The line save_log writes.
FormatLine(t, e) ==
    <<NowStr(t), ",", e.event, ",">> \o e.user \o
    <<",", IntOfBool(e.match), ",">> \o e.extra \o <<"\n">>

\* The five fields save_log was given, as text.
Fields(t, e) == <<<<NowStr(t)>>, <<e.event>>, e.user, <<IntOfBool(e.match)>>,
                  e.extra>>

\* A write of text at offset 0 of a file holding data (mode "w" keeps no
\* O_APPEND: what lies beyond the text written stays).
WriteAtStart(data, text) ==
    text \o SubSeq(data, Len(text) + 1, Len(data))

\* ------------------------------------------------------------------- Init
\* The files an earlier run of the service can have left in DB_DIR.
InitFiles == {Absent} \cup { Pickled(<<e>>) : e \in Embs }

\* Lines 25-31: the three directories exist (with what an earlier run left
\* in DB_DIR) and LOG_FILE holds the header.
Init ==
    /\ dbDir = TRUE
    /\ db \in [Idents -> InitFiles]
    /\ logsDir = TRUE
    /\ logFile = [exists |-> TRUE, data |-> Header]
    /\ pc = [p \in Workers |-> "idle"]
    /\ req = [p \in Workers |-> NoReq]
    /\ resp = [p \in Workers |-> NoResp]
    /\ loc = [p \in Workers |-> NoLoc]
    /\ stale = [p \in Workers |-> FALSE]
    /\ started = 0
    /\ nlogged = [p \in Workers |-> 0]
    /\ wipeStarted = FALSE
    /\ lastLen = [n \in Idents |-> Len(db[n].encs)]
    /\ appended = <<>>
    /\ lastEnroll = <<>>

\* ------------------------------------------------------- handler plumbing
\* Worker q is inside the body of /search, which runs on the event loop.
InSearch(q) == pc[q] # "idle" /\ req[q].op = "search"

\* A request arrives at idle worker p.  The event loop dispatches nothing
\* while the body of a /search runs on it.
Accept(p, r) ==
    /\ pc[p] = "idle"
    /\ started < MaxReqs
    /\ \A q \in Workers : ~InSearch(q)
    /\ started' = started + 1
    /\ req' = [req EXCEPT ![p] = r]
    /\ nlogged' = [nlogged EXCEPT ![p] = 0]

\* The handler returns r (or raises, r being the error response); its
\* locals die.
Return(p, r) ==
    /\ pc' = [pc EXCEPT ![p] = "idle"]
    /\ resp' = [resp EXCEPT ![p] = r]
    /\ loc' = [loc EXCEPT ![p] = NoLoc]

\* The handler goes on to label with locals l.
Goto(p, label, l) ==
    /\ pc' = [pc EXCEPT ![p] = label]
    /\ loc' = [loc EXCEPT ![p] = l]
    /\ UNCHANGED resp

\* save_log(e...) ; return r
CallLog(p, l, e, r) ==
    Goto(p, "log_open", [l EXCEPT !.entry = e, !.ret = r])

\* ---------------------------------------------------------------- save_log
\* save_log opening LOG_FILE in mode "w" in the place of "a": the file is
\* emptied.
LogOpenTruncating(p) ==
    /\ pc[p] = "log_open"
    /\ IF ~logsDir
       THEN /\ Return(p, ServerError)
            /\ UNCHANGED <<logFile, appended, stale>>
       ELSE /\ Goto(p, "log_write", loc[p])
            /\ logFile' = [exists |-> TRUE, data |-> <<>>]
            /\ appended' = <<>>
            /\ stale' = [stale EXCEPT ![p] = FALSE]
    /\ UNCHANGED <<store, logsDir, req, started, nlogged, wipeStarted,
                   lastEnroll>>

\* open(LOG_FILE, "a"): creates the file when missing; raises when LOGS_DIR
\* is missing.
LogOpen(p) ==
    /\ pc[p] = "log_open"
    /\ IF ~logsDir
       THEN /\ Return(p, ServerError)
            /\ UNCHANGED <<logFile, stale>>
       ELSE /\ Goto(p, "log_write", loc[p])
            /\ logFile' = [logFile EXCEPT !.exists = TRUE]
            /\ stale' = [stale EXCEPT ![p] = FALSE]
    /\ UNCHANGED <<store, logsDir, appended, req, started, nlogged,
                   wipeStarted, lastEnroll>>

\* f.write(line) and the close that flushes it: the line goes to the end
\* of the file (O_APPEND), or nowhere when the file was unlinked meanwhile.
\* The handler then returns.
LogWrite(p) ==
    /\ pc[p] = "log_write"
    /\ \E t \in Timestamps :
         IF stale[p]
         THEN UNCHANGED <<logFile, appended, nlogged>>
         ELSE /\ logFile' = [logFile EXCEPT
                               !.data = @ \o FormatLine(t, loc[p].entry)]
              /\ appended' = Append(appended, Fields(t, loc[p].entry))
              /\ nlogged' = [nlogged EXCEPT ![p] = @ + 1]
    /\ Return(p, loc[p].ret)
    /\ stale' = [stale EXCEPT ![p] = FALSE]
    /\ lastEnroll' = IF req[p].op = "enroll" /\ loc[p].ret.ok
                     THEN <<[name |-> loc[p].name, enc |-> loc[p].enc]>>
                     ELSE lastEnroll
    /\ UNCHANGED <<store, logsDir, req, started, wipeStarted>>

\* ------------------------------------------------------------ the face store
\* list_users() without its test on the file: every name is listed.
list_users_unfiltered == Perms(Idents)

\* list_users(): the names of the files of DB_DIR, in any order.
list_users == Perms({ n \in Idents : db[n].st # "absent" })

\* A load that reads one and the same file whatever the name.
load_shared_encodings(name) ==
    LET f == db[CHOOSE n \in Idents : TRUE] IN
    IF f.st = "absent" THEN [raised |-> FALSE, encs |-> <<>>]
    ELSE IF f.st = "torn" THEN [raised |-> TRUE, encs |-> <<>>]
    ELSE [raised |-> FALSE, encs |-> f.encs]

\* load_user_encodings(name): [] for a missing file; pickle.load raises on
\* the empty file of a write in progress.  (The existence test and the
\* open that follows it are one step.)
load_user_encodings(name) ==
    IF db[name].st = "absent" THEN [raised |-> FALSE, encs |-> <<>>]
    ELSE IF db[name].st = "torn" THEN [raised |-> TRUE, encs |-> <<>>]
    ELSE [raised |-> FALSE, encs |-> db[name].encs]

\* What save_user_encodings leaves in the file when it closes it.
save_user_encodings(encs) == Pickled(encs)

\* face_recognition.face_distance(refs, enc): the L2 distances.
face_distance(refs, enc) == [i \in 1..Len(refs) |-> Abs(refs[i] - enc)]

\* ------------------------------------------------------------------ /enroll
\* The /enroll requests: a userName and an upload (the upload is read only
\* under a non-empty name, so one stands for all under an empty one).
EnrollReqs ==
    { Req("enroll", u, img, "", 0, 0, 0) : u \in RawNames, img \in Images }
    \ { Req("enroll", u, img, "", 0, 0, 0) :
           u \in { v \in RawNames : Strip(v) = <<>> },
           img \in Images \ {Image("empty", 0, 0)} }

EnrollFailResp(msg) == Resp(400, FALSE, NoPatient, AbsentDist, 0, msg, <<>>)

\* Lines 177-190: everything /enroll does before it touches the store.
BeginEnroll(p) ==
    \E r \in EnrollReqs :
      LET name == Strip(r.userName)
          img == r.img
          l == [NoLoc EXCEPT !.name = name, !.enc = img.enc]
      IN
      /\ Accept(p, r)
      /\ IF name = <<>>
         THEN Return(p, EnrollFailResp("Username is empty."))
         ELSE IF img.kind = "empty"
         THEN Return(p, HttpError(400, "Empty file"))
         ELSE IF img.kind = "invalid"
         THEN Return(p, HttpError(400, "Invalid image"))
         ELSE IF img.faces = 0
         THEN CallLog(p, l, Entry("enroll_fail", name, FALSE, <<"no_face">>),
                      EnrollFailResp("No face found in the image."))
         ELSE IF img.faces > 1
         THEN CallLog(p, l,
                      Entry("enroll_fail", name, FALSE, <<"multiple_faces">>),
                      EnrollFailResp("Multiple faces found."))
         ELSE Goto(p, "e_load", l)
      /\ UNCHANGED <<store, logst, stale, wipeStarted, lastEnroll>>

\* Lines 193-194: existing = load_user_encodings(name); existing.append(enc)
EnrollLoad(p) ==
    /\ pc[p] = "e_load"
    /\ LET got == load_user_encodings(loc[p].name) IN
       IF got.raised
       THEN Return(p, ServerError)
       ELSE Goto(p, "e_open",
                 [loc[p] EXCEPT !.existing = Append(got.encs, loc[p].enc)])
    /\ UNCHANGED <<store, logst, req, stale, started, nlogged, wipeStarted,
                   lastEnroll>>

\* Line 94: open(p, "wb") empties (or creates) the file; it raises when
\* DB_DIR is missing.
EnrollOpen(p) ==
    /\ pc[p] = "e_open"
    /\ IF ~dbDir
       THEN /\ Return(p, ServerError)
            /\ UNCHANGED <<db, stale>>
       ELSE /\ Goto(p, "e_dump", loc[p])
            /\ db' = [db EXCEPT ![loc[p].name] = Torn]
            /\ stale' = [stale EXCEPT ![p] = FALSE]
    /\ UNCHANGED <<dbDir, lastLen, logst, req, started, nlogged, wipeStarted,
                   lastEnroll>>

\* Line 95 and the close: the pickled list reaches the file (unless the
\* file was unlinked meanwhile).  Line 197 follows.
EnrollDump(p) ==
    /\ pc[p] = "e_dump"
    /\ LET name == loc[p].name
           n == Len(loc[p].existing)
       IN
       /\ IF stale[p]
          THEN UNCHANGED <<db, lastLen>>
          ELSE /\ db' = [db EXCEPT ![name] =
                                     save_user_encodings(loc[p].existing)]
               /\ lastLen' = [lastLen EXCEPT ![name] = n]
       /\ CallLog(p, loc[p],
                  Entry("enroll", name, TRUE, <<"encodings=" \o ToString(n)>>),
                  Resp(200, TRUE, name, AbsentDist, n, "Registered/updated",
                       <<>>))
    /\ stale' = [stale EXCEPT ![p] = FALSE]
    /\ UNCHANGED <<dbDir, logst, req, started, nlogged, wipeStarted,
                   lastEnroll>>

\* ------------------------------------------------------------- matching
Best(name, dist) == [name |-> name, dist |-> dist]

\* Lines 102-109: one turn of best_match's loop over the refs just loaded.
BestMatchStep(acc, name, refs, enc) ==
    IF refs = <<>> THEN acc
    ELSE LET d == SeqMin(face_distance(refs, enc)) IN
         IF d < acc.dist THEN Best(name, d) ELSE acc

\* The decision with < in the place of <=.
BestMatchDecideStrict(best_dist, tolerance) == best_dist < tolerance

\* Lines 110-111
BestMatchDecide(best_dist, tolerance) == best_dist <= tolerance

\* The turn with np.max in the place of np.min.
BestUserStepMax(acc, name, refs, enc) ==
    IF refs = <<>> THEN acc
    ELSE LET d == 0 - SeqMin([i \in DOMAIN refs |->
                               0 - face_distance(refs, enc)[i]]) IN
         IF d < acc.dist THEN Best(name, d) ELSE acc

\* Lines 125-130: one turn of _best_user_for_embedding's loop.
BestUserStep(acc, name, refs, enc) ==
    IF refs = <<>> THEN acc
    ELSE LET d == SeqMin(face_distance(refs, enc)) IN
         IF d < acc.dist THEN Best(name, d) ELSE acc

\* Line 131
BestUserDecide(best_dist, tol) == best_dist <= tol

\* The loop of either helper from user i on, over the store as it stands.
RECURSIVE BestMatchLoop(_, _, _, _)
BestMatchLoop(acc, user_names, i, enc) ==
    IF i > Len(user_names) THEN acc
    ELSE BestMatchLoop(
           BestMatchStep(acc, user_names[i],
                         load_user_encodings(user_names[i]).encs, enc),
           user_names, i + 1, enc)

RECURSIVE BestUserLoop(_, _, _, _)
BestUserLoop(acc, user_names, i, enc) ==
    IF i > Len(user_names) THEN acc
    ELSE BestUserLoop(
           BestUserStep(acc, user_names[i],
                        load_user_encodings(user_names[i]).encs, enc),
           user_names, i + 1, enc)

\* best_match(enc, user_names, tolerance) -> (name, matched, distance), when
\* no file changes while it runs and every file loads.
best_match(enc, user_names, tolerance) ==
    LET acc == BestMatchLoop(Best(UnknownPerson, InitBestDist), user_names,
                             1, enc)
    IN <<acc.name, BestMatchDecide(acc.dist, tolerance), acc.dist>>

\* _best_user_for_embedding(enc_vec, user_names, tol), likewise.
best_user_for_embedding(enc_vec, user_names, tol) ==
    LET acc == BestUserLoop(Best(UnknownPerson, InitBestDist), user_names,
                            1, enc_vec)
    IN <<acc.name, BestUserDecide(acc.dist, tol), acc.dist>>

\* ------------------------------------------------------------------ /search
\* Lines 231-233 and 267-269: the answer on an empty DB_DIR.
NoUsersResp(mode) ==
    Resp(200, FALSE, NoPatient, IF mode = "json" THEN NullDist ELSE AbsentDist,
         0, "No users enrolled in the system.", <<>>)
NoUsersEntry == Entry("search_fail", UnknownPerson, FALSE, <<"no_users_in_db">>)

\* Lines 237-242 and 273-278: the log entry and the answer of a finished scan.
MatchEntry(name, matched, dist) ==
    IF matched
    THEN Entry("search", name, TRUE, <<"dist=" \o Fmt3f(dist)>>)
    ELSE Entry("search_fail", UnknownPerson, FALSE,
               <<"best=">> \o name \o <<",", " ", "dist=" \o Fmt3f(dist)>>)
MatchResp(name, matched, dist) ==
    IF matched
    THEN Resp(200, TRUE, name, dist, 0, "Welcome back", <<>>)
    ELSE Resp(200, FALSE, UnknownPerson, dist, 0, "Unknown user.", <<>>)

\* The /search requests: a JSON body (rejected by SearchIn, of a wrong
\* length, or an embedding and a threshold), a form with or without a file
\* part, or another Content-Type.
SearchReqs ==
    { Req("search", <<>>, NoImage, "application/json", len, 0, 0) :
        len \in (Lens \ {EmbLen}) \cup {BadJson} }
    \cup { Req("search", <<>>, NoImage, "application/json", EmbLen, x, tol) :
             x \in JsonEmbs, tol \in Tols }
    \cup { Req("search", <<>>, img, "multipart/form-data", 0, 0, 0) :
             img \in Images \cup {NoImage} }
    \cup { Req("search", <<>>, NoImage, "text/plain", 0, 0, 0) }

\* Lines 217-228, 245-265 and 280-282: everything /search does before it
\* lists the store.
BeginSearch(p) ==
    \E r \in SearchReqs :
      LET json == r.ct = "application/json"
          form == r.ct = "multipart/form-data"
          img == r.img
          len == r.len
          l(mode, enc, t) == [NoLoc EXCEPT !.mode = mode, !.enc = enc, !.tol = t]
      IN
      /\ Accept(p, r)
      /\ IF json
         THEN IF len = BadJson
              THEN Return(p, HttpError(400, "Invalid JSON for search"))
              ELSE IF len # EmbLen
              THEN Return(p, HttpError(400, "Invalid embedding"))
              ELSE Goto(p, "s_list", l("json", r.x, r.tol))
         ELSE IF form
         THEN IF img = NoImage
              THEN Return(p, HttpError(400, "No file part in form-data"))
              ELSE IF img.kind = "empty"
              THEN Return(p, HttpError(400, "Empty file"))
              ELSE IF img.kind = "invalid"
              THEN Return(p, HttpError(400, "Invalid image"))
              ELSE IF img.faces = 0
              THEN CallLog(p, NoLoc,
                           Entry("search_fail", UnknownPerson, FALSE,
                                 <<"no_face">>),
                           Resp(200, FALSE, NoPatient, AbsentDist, 0,
                                "No face found.", <<>>))
              ELSE Goto(p, "s_list", l("image", img.enc, DefaultTol))
         ELSE Return(p, HttpError(415, "Unsupported Content-Type"))
      /\ UNCHANGED <<store, logst, stale, wipeStarted, lastEnroll>>

\* Lines 230-233 and 266-269: users = list_users(); os.listdir raises when
\* DB_DIR is missing.
SearchList(p) ==
    /\ pc[p] = "s_list"
    /\ IF ~dbDir
       THEN Return(p, ServerError)
       ELSE \E users \in list_users :
              IF users = <<>>
              THEN CallLog(p, loc[p], NoUsersEntry, NoUsersResp(loc[p].mode))
              ELSE Goto(p, "s_load", [loc[p] EXCEPT !.users = users, !.i = 1])
    /\ UNCHANGED <<store, logst, req, stale, started, nlogged, wipeStarted,
                   lastEnroll>>

\* A scan that, on a match, adds the query to the record it matched.
SearchLoadLearning(p) ==
    /\ pc[p] = "s_load"
    /\ LET l == loc[p]
           name == l.users[l.i]
           got == load_user_encodings(name)
           acc == Best(l.best_name, l.best_dist)
           new == IF l.mode = "json"
                  THEN BestUserStep(acc, name, got.encs, l.enc)
                  ELSE BestMatchStep(acc, name, got.encs, l.enc)
           matched == IF l.mode = "json"
                      THEN BestUserDecide(new.dist, l.tol)
                      ELSE BestMatchDecide(new.dist, l.tol)
           l2 == [l EXCEPT !.best_name = new.name, !.best_dist = new.dist,
                           !.i = @ + 1]
       IN
       IF got.raised
       THEN Return(p, ServerError) /\ UNCHANGED db
       ELSE IF l.i < Len(l.users)
       THEN Goto(p, "s_load", l2) /\ UNCHANGED db
       ELSE /\ CallLog(p, l2, MatchEntry(new.name, matched, new.dist),
                       MatchResp(new.name, matched, new.dist))
            /\ db' = IF matched /\ new.name \in Idents
                     THEN [db EXCEPT ![new.name] =
                                       Pickled(Append(@.encs, l.enc))]
                     ELSE db
    /\ UNCHANGED <<dbDir, lastLen, logst, req, stale, started, nlogged,
                   wipeStarted, lastEnroll>>

\* One turn of the helper's loop: load the next user's file and compare.
\* After the last turn the helper returns and the handler picks its answer.
SearchLoad(p) ==
    /\ pc[p] = "s_load"
    /\ LET l == loc[p]
           name == l.users[l.i]
           got == load_user_encodings(name)
           acc == Best(l.best_name, l.best_dist)
           new == IF l.mode = "json"
                  THEN BestUserStep(acc, name, got.encs, l.enc)
                  ELSE BestMatchStep(acc, name, got.encs, l.enc)
           matched == IF l.mode = "json"
                      THEN BestUserDecide(new.dist, l.tol)
                      ELSE BestMatchDecide(new.dist, l.tol)
           l2 == [l EXCEPT !.best_name = new.name, !.best_dist = new.dist,
                           !.i = @ + 1]
       IN
       IF got.raised
       THEN Return(p, ServerError)
       ELSE IF l.i < Len(l.users)
       THEN Goto(p, "s_load", l2)
       ELSE CallLog(p, l2, MatchEntry(new.name, matched, new.dist),
                    MatchResp(new.name, matched, new.dist))
    /\ UNCHANGED <<store, logst, req, stale, started, nlogged, wipeStarted,
                   lastEnroll>>

\* ----------------------------------------------------- /get_attendance_logs
BeginExport(p) ==
    /\ Accept(p, Req("export", <<>>, NoImage, "", 0, 0, 0))
    /\ Goto(p, "x_read", NoLoc)
    /\ UNCHANGED <<store, logst, stale, wipeStarted, lastEnroll>>

\* The archive member logs/attendance.csv: the bytes of LOG_FILE, or no
\* member when the file is missing.
ZipOf(file) ==
    Resp(200, file.exists, NoPatient, AbsentDist, 0, "logs.zip",
         IF file.exists THEN file.data ELSE <<>>)

\* Lines 289-290 (the existence test and the read are one step).
ExportRead(p) ==
    /\ pc[p] = "x_read"
    /\ Return(p, ZipOf(logFile))
    /\ UNCHANGED <<store, logst, req, stale, started, nlogged, wipeStarted,
                   lastEnroll>>

\* ------------------------------------------------------------------ /health
BeginHealth(p) ==
    /\ Accept(p, Req("health", <<>>, NoImage, "", 0, 0, 0))
    /\ Goto(p, "h_list", NoLoc)
    /\ UNCHANGED <<store, logst, stale, wipeStarted, lastEnroll>>

\* Line 138
HealthList(p) ==
    /\ pc[p] = "h_list"
    /\ IF ~dbDir
       THEN Return(p, ServerError)
       ELSE \E users \in list_users :
              Return(p, Resp(200, TRUE, NoPatient, AbsentDist, 0, "", users))
    /\ UNCHANGED <<store, logst, req, stale, started, nlogged, wipeStarted,
                   lastEnroll>>

\* --------------------------------------------------------- /admin/clear_all
BeginWipe(p) ==
    /\ Accept(p, Req("wipe", <<>>, NoImage, "", 0, 0, 0))
    /\ Goto(p, "w_db_rm", NoLoc)
    /\ wipeStarted' = TRUE
    /\ UNCHANGED <<store, logst, stale, lastEnroll>>

\* The workers whose open file shutil.rmtree unlinks.
Holders(labels) == { q \in Workers : pc[q] \in labels }

\* An rmtree that leaves the files in place.
rmtree_keeps(files) == files

\* shutil.rmtree(DB_DIR): what is left of its files.
rmtree(files) == [n \in DOMAIN files |-> Absent]

\* Lines 300-301 for DB_DIR: every file and the directory go.
WipeDbRm(p) ==
    /\ pc[p] = "w_db_rm"
    /\ IF dbDir
       THEN /\ dbDir' = FALSE
            /\ db' = rmtree(db)
            /\ lastLen' = [n \in Idents |-> 0]
            /\ lastEnroll' = <<>>
            /\ stale' = [q \in Workers |->
                           stale[q] \/ q \in Holders({"e_dump"})]
            /\ Goto(p, "w_db_mk", loc[p])
       ELSE /\ Goto(p, "w_logs_rm", loc[p])
            /\ UNCHANGED <<store, stale, lastEnroll>>
    /\ UNCHANGED <<logst, req, started, nlogged, wipeStarted>>

\* Line 302 for DB_DIR
WipeDbMk(p) ==
    /\ pc[p] = "w_db_mk"
    /\ dbDir' = TRUE
    /\ Goto(p, "w_logs_rm", loc[p])
    /\ UNCHANGED <<db, lastLen, logst, req, stale, started, nlogged,
                   wipeStarted, lastEnroll>>

\* Lines 300-301 for LOGS_DIR
WipeLogsRm(p) ==
    /\ pc[p] = "w_logs_rm"
    /\ IF logsDir
       THEN /\ logsDir' = FALSE
            /\ logFile' = [exists |-> FALSE, data |-> <<>>]
            /\ appended' = <<>>
            /\ stale' = [q \in Workers |->
                           stale[q] \/ q \in Holders({"log_write", "w_header"})]
            /\ Goto(p, "w_logs_mk", loc[p])
       ELSE /\ Goto(p, "w_open", loc[p])
            /\ UNCHANGED <<logst, stale>>
    /\ UNCHANGED <<store, req, started, nlogged, wipeStarted, lastEnroll>>

\* Line 302 for LOGS_DIR
WipeLogsMk(p) ==
    /\ pc[p] = "w_logs_mk"
    /\ logsDir' = TRUE
    /\ Goto(p, "w_open", loc[p])
    /\ UNCHANGED <<store, logFile, appended, req, stale, started, nlogged,
                   wipeStarted, lastEnroll>>

\* What open(LOG_FILE, "w") leaves of the file.
OpenTruncate(file) == [exists |-> TRUE, data |-> <<>>]

\* Line 303: open(LOG_FILE, "w") empties (or creates) the file; it raises
\* when LOGS_DIR is missing.
WipeOpen(p) ==
    /\ pc[p] = "w_open"
    /\ IF ~logsDir
       THEN /\ Return(p, ServerError)
            /\ UNCHANGED <<logFile, appended, stale>>
       ELSE /\ Goto(p, "w_header", loc[p])
            /\ logFile' = OpenTruncate(logFile)
            /\ appended' = <<>>
            /\ stale' = [stale EXCEPT ![p] = FALSE]
    /\ UNCHANGED <<store, logsDir, req, started, nlogged, wipeStarted,
                   lastEnroll>>

\* Line 304 and the close: the header is written at offset 0.
WipeHeader(p) ==
    /\ pc[p] = "w_header"
    /\ IF stale[p]
       THEN UNCHANGED logFile
       ELSE logFile' = [logFile EXCEPT !.data = WriteAtStart(@, Header)]
    /\ Return(p, Resp(200, TRUE, NoPatient, AbsentDist, 0,
                      "All data cleared.", <<>>))
    /\ stale' = [stale EXCEPT ![p] = FALSE]
    /\ UNCHANGED <<store, logsDir, appended, req, started, nlogged,
                   wipeStarted, lastEnroll>>

\* --------------------------------------------------------- specifications
Step(p) ==
    \/ BeginEnroll(p) \/ EnrollLoad(p) \/ EnrollOpen(p) \/ EnrollDump(p)
    \/ BeginSearch(p) \/ SearchList(p) \/ SearchLoad(p)
    \/ BeginExport(p) \/ ExportRead(p)
    \/ BeginHealth(p) \/ HealthList(p)
    \/ BeginWipe(p) \/ WipeDbRm(p) \/ WipeDbMk(p) \/ WipeLogsRm(p)
    \/ WipeLogsMk(p) \/ WipeOpen(p) \/ WipeHeader(p)
    \/ LogOpen(p) \/ LogWrite(p)

\* Requests served by NumWorkers threads at once.
Next == \E p \in Workers : Step(p)
Spec == Init /\ [][Next]_vars

\* Requests served one after the other.
NextSeq == Step(1)
SpecSeq == Init /\ [][NextSeq]_vars

\* ------------------------------------------------- vocabulary of the claims
Range(f) == { f[i] : i \in DOMAIN f }

\* Worker p has answered a request of kind op and nothing since.
Answered(p, op) == pc[p] = "idle" /\ req[p].op = op

\* The identity a request names.
NameOf(r) == Strip(r.userName)

\* Worker p answered an /enroll with success.
Enrolled(p) == Answered(p, "enroll") /\ resp[p].status = 200 /\ resp[p].ok

\* The samples stored for identity n (none when the file is missing).
Samples(n) == db[n].encs

\* ---------------------------------------------------------------------- C1
\* C1: when NumWorkers /enroll requests for one identity, carrying distinct
\* embeddings, are the only requests issued and all have returned success,
\* the identity's record holds every one of their embeddings (and so at
\* least NumWorkers samples): no enrollment is lost.
C1_NoLostEnrollment ==
    \A n \in Idents :
      ( /\ started = NumWorkers
        /\ \A p \in Workers : Enrolled(p) /\ NameOf(req[p]) = n
        /\ \A p, q \in Workers : p # q => req[p].img.enc # req[q].img.enc )
      => /\ db[n].st = "ok"
         /\ \A p \in Workers : req[p].img.enc \in Range(Samples(n))
         /\ Len(Samples(n)) >= NumWorkers

\* ---------------------------------------------------------------------- C2
\* The step is the write of worker p's /enroll reaching the file.
EnrollWrites(p) == pc[p] = "e_dump" /\ ~stale[p]

\* C2: as long as no clear_all has been issued, every step that leaves a
\* readable record leaves it no shorter than the record last readable, and
\* the write of an /enroll leaves it exactly one sample longer.
C2_EnrollMonotone ==
    [][ ~wipeStarted' =>
          \A n \in Idents :
            db'[n].st = "ok" =>
              /\ Len(db'[n].encs) >= lastLen[n]
              /\ \A p \in Workers :
                   (EnrollWrites(p) /\ pc'[p] # "e_dump" /\ loc[p].name = n)
                   => Len(db'[n].encs) = lastLen[n] + 1 ]_vars

\* ---------------------------------------------------------------------- C3
\* Worker p answered a /search that passed validation: a JSON body with a
\* well-formed embedding, or a form with a picture showing a face.
ValidSearch(p) ==
    /\ Answered(p, "search")
    /\ \/ req[p].ct = "application/json" /\ req[p].len = EmbLen
       \/ /\ req[p].ct = "multipart/form-data"
          /\ req[p].img.kind = "ok" /\ req[p].img.faces > 0

\* The embedding and the tolerance such a /search decides on.
QueryOf(r) == IF r.ct = "application/json" THEN r.x ELSE r.img.enc
TolOf(r) == IF r.ct = "application/json" THEN r.tol ELSE DefaultTol

\* Worker p answered a /search for the embedding of the latest successful
\* /enroll, at the default tolerance, the store unchanged in between.
SelfSearch(p) ==
    /\ ValidSearch(p)
    /\ TolOf(req[p]) = DefaultTol
    /\ lastEnroll # <<>>
    /\ QueryOf(req[p]) = lastEnroll[1].enc

\* The identities whose record holds embedding e.
Holding(e) == { n \in Idents : e \in Range(Samples(n)) }

\* C3 as stated: after a successful enroll of X with E, a verify with E at
\* the default tolerance answers matched, identity X, distance 0.
C3_SelfMatchAsStated ==
    \A p \in Workers :
      SelfSearch(p) =>
        /\ resp[p].status = 200 /\ resp[p].ok
        /\ resp[p].distance = 0
        /\ resp[p].patient = lastEnroll[1].name

\* C3, amended: after a successful enroll of X with E, a verify with E at
\* the default tolerance answers matched and distance 0, and names an
\* identity whose record holds E: X itself whenever no other record holds E.
C3_SelfMatch ==
    \A p \in Workers :
      SelfSearch(p) =>
        /\ resp[p].status = 200 /\ resp[p].ok
        /\ resp[p].distance = 0
        /\ resp[p].patient \in Holding(lastEnroll[1].enc)
        /\ Holding(lastEnroll[1].enc) = {lastEnroll[1].name}
             => resp[p].patient = lastEnroll[1].name

\* A self-search answered with X while another identity is enrolled too.
C3_Case ==
    \E p \in Workers :
      /\ SelfSearch(p)
      /\ resp[p].patient = lastEnroll[1].name
      /\ \E n \in Idents : n # lastEnroll[1].name /\ Samples(n) # <<>>

\* ---------------------------------------------------------------------- C4
\* The distances from e to the stored references, and the smallest.
AllDists(e) ==
    UNION { { Abs(Samples(n)[i] - e) : i \in DOMAIN Samples(n) } : n \in Idents }
MinDist(e) == CHOOSE d \in AllDists(e) : \A x \in AllDists(e) : d <= x

\* C4: on a store holding at least one reference, a verify answers matched
\* exactly when the smallest distance from the query to a stored reference
\* is at most the tolerance.
C4_ToleranceBoundary ==
    \A p \in Workers :
      (ValidSearch(p) /\ AllDists(QueryOf(req[p])) # {}) =>
        /\ resp[p].status = 200
        /\ resp[p].ok <=> (MinDist(QueryOf(req[p])) <= TolOf(req[p]))

\* ---------------------------------------------------------------------- C5
StoreEmpty == \A n \in Idents : db[n].st = "absent"

NoRefsScan(p) ==
    /\ pc[p] = "s_load" /\ loc[p].i = 1
    /\ \A i \in DOMAIN loc[p].users :
         load_user_encodings(loc[p].users[i]) = [raised |-> FALSE, encs |-> <<>>]

\* What the helper of worker p's /search returns on the store as it stands.
HelperResult(p) ==
    IF loc[p].mode = "json"
    THEN best_user_for_embedding(loc[p].enc, loc[p].users, loc[p].tol)
    ELSE best_match(loc[p].enc, loc[p].users, loc[p].tol)

\* C6: given candidates none of which has a stored embedding, find_best
\* answers unknown_person, not matched, whatever the tolerance.
C6_NoRefsUnknown ==
    \A p \in Workers :
      NoRefsScan(p) =>
        HelperResult(p)[1] = UnknownPerson /\ HelperResult(p)[2] = FALSE

\* ---------------------------------------------------------------------- C7
\* C7: every /enroll and every /search that was answered put exactly one
\* line in the log.
C7_OneEntryPerCall ==
    \A p \in Workers :
      (Answered(p, "enroll") \/ Answered(p, "search")) => nlogged[p] = 1

\* ---------------------------------------------------------------------- C8
\* The step completes worker p's clear_all.
WipeCompletes(p) == pc[p] = "w_header" /\ pc'[p] = "idle"

\* C8: in the state a completed clear_all leaves, the export holds the
\* file with the header row alone and list_users is empty.
C8_WipeThenExport ==
    [][ \A p \in Workers :
          WipeCompletes(p) =>
            /\ ZipOf(logFile').ok
            /\ ZipOf(logFile').body = Header
            /\ list_users' = { <<>> } ]_vars

\* A clear_all completed after an earlier call.
C8_Case ==
    \E p \in Workers :
      /\ Answered(p, "wipe") /\ resp[p].ok /\ started >= 2
      /\ StoreEmpty /\ logFile.data = Header

\* ---------------------------------------------------------------------- C9
\* s cut at every token sep (str.split).
RECURSIVE SplitOn(_, _)
SplitOn(s, sep) ==
    IF \A i \in DOMAIN s : s[i] # sep THEN << s >>
    ELSE LET k == CHOOSE i \in DOMAIN s :
                    s[i] = sep /\ \A j \in 1..(i - 1) : s[j] # sep
         IN << SubSeq(s, 1, k - 1) >> \o SplitOn(SubSeq(s, k + 1, Len(s)), sep)

\* The rows of a table (the text after the last newline is no row when
\* empty), each cut into its fields.
Rows(data) ==
    LET r == SplitOn(data, "\n") IN
    IF r[Len(r)] = <<>> THEN SubSeq(r, 1, Len(r) - 1) ELSE r
ParseTable(data) ==
    LET r == Rows(data) IN [i \in DOMAIN r |-> SplitOn(r[i], ",")]

HeaderRow == << <<"timestamp">>, <<"event">>, <<"user">>, <<"match">>,
                <<"extra">> >>

\* C9: as long as no clear_all has been issued, the exported table parses
\* back into the header row followed by the entries appended, in order.
C9_RoundTrip ==
    ~wipeStarted =>
      ParseTable(ZipOf(logFile).body) = << HeaderRow >> \o appended

\* --------------------------------------------------------------------- C10
\* Worker w's clear_all has deleted something and not yet rewritten the
\* header.
InWipe(w) ==
    pc[w] \in {"w_db_mk", "w_logs_rm", "w_logs_mk", "w_open", "w_header"}

\* Worker p's /enroll or /search is past its first access to the store or
\* the log and before its last.
Between(p) ==
    /\ req[p].op \in {"enroll", "search"}
    /\ \/ pc[p] \in {"e_open", "e_dump", "s_load", "log_write"}
       \/ pc[p] = "log_open" /\ (loc[p].existing # <<>> \/ loc[p].mode # "")

\* C10: no clear_all is in progress while another request is between its
\* first and its last access.
C10_WipeExclusive ==
    \A w, p \in Workers : ~(w # p /\ InWipe(w) /\ Between(p))

\* --------------------------------------------------------------------- C11
\* Worker p is inside save_log's append: it has opened LOG_FILE and has not
\* yet written and closed it.
InAppend(p) == pc[p] = "log_write"

\* C11: at no time are two requests inside the append of save_log (open,
\* write, close of LOG_FILE).
C11_SingleWriter ==
    \A p, q \in Workers : (InAppend(p) /\ InAppend(q)) => p = q

\* --------------------------------------------------------------------- C12
\* The step is save_log failing in worker p's request: open(LOG_FILE, "a")
\* raises.
LogFails(p) == pc[p] = "log_open" /\ ~logsDir /\ pc'[p] = "idle"

\* Worker p's /enroll has written its sample and the record still holds it.
StoreWritten(p) ==
    /\ req[p].op = "enroll" /\ loc[p].ret.ok
    /\ db[loc[p].name] = save_user_encodings(loc[p].existing)

\* C12: when save_log fails in an /enroll whose sample is stored, the
\* record keeps the sample and the answer is the success the handler had
\* ready; when it fails in a /search, the answer is no error.
C12_LogFailureTolerated ==
    [][ \A p \in Workers :
          LogFails(p) =>
            /\ StoreWritten(p) =>
                 /\ db'[loc[p].name] = db[loc[p].name]
                 /\ resp'[p].status = 200 /\ resp'[p].ok
            /\ req[p].op = "search" => resp'[p].status = 200 ]_vars

\* --------------------------------------------------------------------- C13
\* Worker p's scan is about to load a record that does not deserialize.
CorruptAt(p) ==
    pc[p] = "s_load" /\ load_user_encodings(loc[p].users[loc[p].i]).raised

\* C13: a scan that meets a record that does not deserialize skips it: it
\* goes on to the next identity (or to its answer) with the best match it
\* had, and does not end in an error.
C13_CorruptSkipped ==
    [][ \A p \in Workers :
          (CorruptAt(p) /\ loc'[p] # loc[p]) =>
            /\ pc'[p] \in {"s_load", "log_open"}
            /\ loc'[p].best_name = loc[p].best_name
            /\ loc'[p].best_dist = loc[p].best_dist ]_vars

\* --------------------------------------------------------------------- C14
\* Worker p's /search is about to run its helper on its candidate list.
ScanStart(p) == pc[p] = "s_load" /\ loc[p].i = 1

\* The distances from e to the references stored for identity n.
OwnDists(n, e) == { Abs(Samples(n)[i] - e) : i \in DOMAIN Samples(n) }

\* The smallest distance from e to a reference of any candidate, and the
\* first candidate that has a reference at that distance.
GlobalMin(users, e) ==
    LET all == UNION { OwnDists(users[i], e) : i \in DOMAIN users }
    IN CHOOSE d \in all : \A x \in all : d <= x
FirstOwner(users, e) ==
    users[CHOOSE i \in DOMAIN users :
            /\ GlobalMin(users, e) \in OwnDists(users[i], e)
            /\ \A j \in 1..(i - 1) : GlobalMin(users, e) \notin OwnDists(users[j], e)]

\* C14: on a candidate list where some identity has stored embeddings, the
\* helper returns the smallest distance to any stored embedding and the
\* first candidate owning an embedding at that distance.
C14_GlobalMinimum ==
    \A p \in Workers :
      ( /\ ScanStart(p)
        /\ \E i \in DOMAIN loc[p].users : Samples(loc[p].users[i]) # <<>> )
      => /\ HelperResult(p)[3] = GlobalMin(loc[p].users, loc[p].enc)
         /\ HelperResult(p)[1] = FirstOwner(loc[p].users, loc[p].enc)

\* --------------------------------------------------------------------- C15
\* A userName of blanks only (or empty).
Blank(u) == \A i \in DOMAIN u : u[i] = " "

\* An /enroll that is to fail: its userName is blank, or its upload is
\* rejected, or its picture shows no face or several.
FailingEnroll(r) ==
    /\ r.op = "enroll"
    /\ \/ Blank(r.userName)
       \/ r.img.kind # "ok"
       \/ r.img.faces # 1

\* The step belongs to a failing /enroll of worker p: the handler moves on,
\* or the request is accepted and answered at once.
FailedEnrollStep(p) ==
    /\ FailingEnroll(req'[p])
    /\ \/ pc'[p] # pc[p]
       \/ /\ pc[p] = "idle" /\ started' # started
          /\ \A q \in Workers : pc'[q] = pc[q]

\* C15: no step of a failing /enroll changes a file of the store or the
\* names list_users returns.
C15_FailedEnrollFrame ==
    [][ \A p \in Workers :
          FailedEnrollStep(p) =>
            /\ db' = db /\ dbDir' = dbDir
            /\ list_users' = list_users ]_vars

\* An /enroll on a picture with two faces was answered 400 over a store
\* that is not empty, its enroll_fail line the last of the log.
C15_Case ==
    /\ ~StoreEmpty
    /\ \E p \in Workers :
         /\ Answered(p, "enroll") /\ FailingEnroll(req[p])
         /\ ~Blank(req[p].userName) /\ req[p].img.faces = 2
         /\ resp[p].status = 400 /\ nlogged[p] = 1
         /\ appended # <<>> /\ appended[Len(appended)][2] = <<"enroll_fail">>

\* --------------------------------------------------------------------- C16
\* The step is one of worker p's /enroll past its validation.
EnrollStep(p) ==
    req[p].op = "enroll" /\ pc[p] # "idle" /\ pc'[p] # pc[p]

\* No request of another worker names the identity of worker p's /enroll.
Alone(p) ==
    \A q \in Workers \ {p} :
      ~(req[q].op = "enroll" /\ NameOf(req[q]) = loc[p].name)

\* C16: no step of an /enroll for one identity changes the record of
\* another; and, no clear_all having been issued, an /enroll whose identity
\* no other worker's request names replaces the record by exactly what it
\* held before plus the new sample, whatever the other workers enroll
\* meanwhile.
C16_CrossIdentity ==
    [][ \A p \in Workers :
          EnrollStep(p) =>
            /\ \A n \in Idents \ {loc[p].name} : db'[n] = db[n]
            /\ (~wipeStarted' /\ Alone(p)) =>
                 /\ pc[p] = "e_open" =>
                      loc[p].existing =
                        Append(Samples(loc[p].name), loc[p].enc)
                 /\ pc[p] = "e_dump" =>
                      db'[loc[p].name] = Pickled(loc[p].existing) ]_vars

\* An /enroll has added its sample to a record that held one, while an
\* /enroll for another identity is in the middle of its write.
C16_Case ==
    \E p, q \in Workers :
      /\ req[p].op = "enroll" /\ pc[p] = "log_open" /\ loc[p].ret.ok
      /\ req[q].op = "enroll" /\ pc[q] = "e_dump"
      /\ loc[p].name # loc[q].name
      /\ ~wipeStarted
      /\ Len(Samples(loc[p].name)) = 2
      /\ db[loc[p].name] = Pickled(loc[p].existing)

\* --------------------------------------------------------------------- C17
IsPrefix(a, b) == Len(a) <= Len(b) /\ SubSeq(b, 1, Len(a)) = a

\* The step is one of a clear_all at work.
WipeStep ==
    \E w \in Workers :
      /\ pc[w] \in {"w_db_rm", "w_db_mk", "w_logs_rm", "w_logs_mk", "w_open",
                    "w_header"}
      /\ pc'[w] # pc[w]

\* C17: across every step that is not one of a clear_all, the rows of
\* LOG_FILE before the step are the first rows of LOG_FILE after it, and
\* the bytes of the file are kept likewise.
C17_AppendOnly ==
    [][ ~WipeStep =>
          /\ IsPrefix(logFile.data, logFile'.data)
          /\ IsPrefix(ParseTable(logFile.data), ParseTable(logFile'.data))
      ]_vars

\* Two lines were appended below the header and all three rows are there.
C17_Case ==
    /\ Len(appended) = 2
    /\ ParseTable(logFile.data) = << HeaderRow >> \o appended
    /\ \E p \in Workers : Answered(p, "search") /\ nlogged[p] = 1

\* --------------------------------------------------------------------- C18
\* The step belongs to worker p's request of kind op: the handler moves on,
\* or the request is accepted and answered at once.
ServingStep(p, op) ==
    /\ req'[p].op = op
    /\ \/ pc'[p] # pc[p]
       \/ /\ pc[p] = "idle" /\ started' # started
          /\ \A q \in Workers : pc'[q] = pc[q]

\* C18: no step of a /search (answered with a match or without, on an empty
\* store, or rejected) changes a file of the store or the names list_users
\* returns; no step of /get_attendance_logs changes the store or LOG_FILE.
C18_ReadOnly ==
    [][ \A p \in Workers :
          /\ ServingStep(p, "search") =>
               /\ db' = db /\ dbDir' = dbDir
               /\ list_users' = list_users
          /\ ServingStep(p, "export") =>
               /\ db' = db /\ dbDir' = dbDir
               /\ list_users' = list_users
               /\ logFile' = logFile /\ logsDir' = logsDir ]_vars

\* A /search was answered with a match on an enrolled identity, and an
\* export with the log.
C18_Case ==
    \E p, q \in Workers :
      /\ ValidSearch(p) /\ resp[p].ok /\ resp[p].patient \in Idents
      /\ nlogged[p] = 1
      /\ Samples(resp[p].patient) # <<>>
      /\ Answered(q, "export") /\ resp[q].ok

\* --------------------------------------------------------------------- C19
\* The candidate lists (names in any order, with or without a file), the
\* queries and the tolerances the helpers are compared on.
CandidateLists == UNION { Perms(S) : S \in SUBSET Idents }
Queries == Embs \cup JsonEmbs
Tolerances == Tols \cup {0, InitBestDist}

\* C19: on every store, best_match and _best_user_for_embedding return the
\* same (name, matched, distance) for every candidate list, query and
\* tolerance.  (On a file that does not load both raise at the same turn
\* of the loop; the comparison then is of what they had found so far.)
C19_HelpersAgree ==
    \A users \in CandidateLists, e \in Queries, t \in Tolerances :
      best_match(e, users, t) = best_user_for_embedding(e, users, t)

\* A /search by picture was answered with a match, every identity having
\* samples, and the answer is the one the helper of the JSON mode gives.
C19_Case ==
    \E p \in Workers :
      /\ ValidSearch(p) /\ req[p].ct = "multipart/form-data"
      /\ resp[p].ok /\ resp[p].patient \in Idents
      /\ \A n \in Idents : Samples(n) # <<>>
      /\ \E users \in list_users :
           LET r == best_user_for_embedding(QueryOf(req[p]), users,
                                            TolOf(req[p]))
           IN resp[p] = MatchResp(r[1], r[2], r[3])

====
